---- MODULE Spec2Model ----
(***************************************************************************)
(* Fuel price pipeline: fetch_petroleum_data -> persist raw ->             *)
(* clean_petroleum_data -> persist cleaned -> static and interactive       *)
(* chart renderers, as sequenced by main.py.                               *)
(*                                                                         *)
(* Representation.                                                         *)
(*  - A cell is <<>> (missing: None / NaN / NaT) or <<payload>>.           *)
(*  - A numeric payload (int64 or float64) is an integer number of halves  *)
(*    (<<3>> is 1.5, <<2>> is 1), so that the median of two parsed values  *)
(*    is exact; quartiles are kept as four times their value, again in     *)
(*    halves.  All inputs are small integers, for which the float          *)
(*    arithmetic of the code is exact.  The dtype of the column tells an   *)
(*    int64 1 from a float64 1.0.                                          *)
(*  - Texts are ASCII; a character outside ASCII is written as its Python  *)
(*    escape, backslash-u and four hexadecimal digits.                     *)
(*  - A datetime64 payload is the calendar year (the inputs are year-only  *)
(*    strings, parsed to January 1st of that year).                        *)
(*  - A row is [idx |-> index label, cells |-> [column -> cell]].          *)
(*  - A frame is [columns, dtype, rows].                                   *)
(*  - A file is [exists, lines]; a line is the sequence of its cells'      *)
(*    texts; a zero-byte file has no line.                                 *)
(***************************************************************************)
EXTENDS Integers, Sequences, FiniteSets, TLC

VARIABLES pc, response, df, error, raw_csv, clean_csv, charts, requests, called,
          warnings

vars == <<pc, response, df, error, raw_csv, clean_csv, charts, requests, called,
          warnings>>

(***************************************************************************)
(* Bounds of the explored inputs.                                          *)
(***************************************************************************)
MaxTimeRows == 3
MaxValueRows == 5
MaxCodeRows == 3
MaxMalformedRows == 2

(***************************************************************************)
(* Cells.                                                                  *)
(***************************************************************************)
NA == <<>>

isna(c) == c = NA

Cell(x) == <<x>>

Float(n) == <<2 * n>>

(***************************************************************************)
(* Input texts and their parsers (pd.to_datetime / pd.to_numeric with      *)
(* errors='coerce').                                                       *)
(***************************************************************************)
YearTexts == ("1850" :> 1850) @@ ("1990" :> 1990) @@ ("2000" :> 2000)
             @@ ("2025" :> 2025) @@ ("2026" :> 2026)

NumberTexts == ("0" :> 0) @@ ("1" :> 1) @@ ("3" :> 3)

to_datetime(c) ==
    IF isna(c) THEN NA
    ELSE IF c[1] \in DOMAIN YearTexts THEN Cell(YearTexts[c[1]])
    ELSE NA

to_numeric(c) ==
    IF isna(c) THEN NA
    ELSE IF c[1] \in DOMAIN NumberTexts THEN Float(NumberTexts[c[1]])
    ELSE NA

(* the dtype pd.to_numeric gives the parsed column: int64 when every entry *)
(* parsed to an integer (also when there is no entry), float64 as soon as  *)
(* one entry is NaN.  Every number text explored is an integer text.       *)
to_numeric_dtype(series) ==
    IF \E i \in 1..Len(series) : isna(to_numeric(series[i]))
    THEN "float64" ELSE "int64"

(* np.number: the dtypes select_dtypes counts as numeric *)
is_number(dt) == dt \in {"int64", "float64"}

(***************************************************************************)
(* Frames.                                                                 *)
(***************************************************************************)
SeqToSet(s) == {s[i] : i \in 1..Len(s)}

EmptyFrame == [columns |-> <<>>, dtype |-> <<>>, rows |-> <<>>]

empty(frame) == Len(frame.rows) = 0 \/ Len(frame.columns) = 0

has_column(frame, c) == c \in SeqToSet(frame.columns)

(* pd.DataFrame(data): columns are the keys of the JSON rows, every column *)
(* is of object dtype, the index is 0..n-1.                                *)
DataFrame(data) ==
    IF Len(data.rows) = 0 THEN EmptyFrame
    ELSE [columns |-> data.columns,
          dtype   |-> [c \in SeqToSet(data.columns) |-> "object"],
          rows    |-> [i \in 1..Len(data.rows) |->
                          [idx |-> i - 1, cells |-> data.rows[i]]]]

(* frame[c]: the cells of a column, in row order *)
column(frame, c) == [i \in 1..Len(frame.rows) |-> frame.rows[i].cells[c]]

(* frame[c] = series, with the column's new dtype *)
assign_column(frame, c, series, dt) ==
    [frame EXCEPT !.dtype = [frame.dtype EXCEPT ![c] = dt],
                  !.rows = [i \in 1..Len(frame.rows) |->
                      [frame.rows[i] EXCEPT !.cells[c] = series[i]]]]

(* frame[mask]: the rows whose entry of the boolean mask is true *)
select(frame, mask) ==
    LET kept == SelectSeq([i \in 1..Len(frame.rows) |-> i], LAMBDA i : mask[i])
    IN  [frame EXCEPT !.rows = [k \in 1..Len(kept) |-> frame.rows[kept[k]]]]

(***************************************************************************)
(* Column statistics.                                                      *)
(***************************************************************************)
(* the non-missing payloads of column c, in row order *)
present(frame, c) ==
    LET kept == SelectSeq(column(frame, c), LAMBDA x : ~isna(x))
    IN  [i \in 1..Len(kept) |-> kept[i][1]]

(* Series.median(): missing entries skipped, NaN when nothing is left *)
median(frame, c) ==
    LET s == SortSeq(present(frame, c), LAMBDA a, b : a < b)
        n == Len(s)
    IN  IF n = 0 THEN NA
        ELSE IF n % 2 = 1 THEN Cell(s[(n + 1) \div 2])
        ELSE Cell((s[n \div 2] + s[(n \div 2) + 1]) \div 2)

(* Series.quantile(k/4) with linear interpolation, times four: the        *)
(* position k*(n-1)/4 lies between the sorted entries lo and lo+1.         *)
quantile(s, k) ==
    LET n  == Len(s)
        lo == (k * (n - 1)) \div 4
        r  == (k * (n - 1)) % 4
    IN  IF r = 0 THEN 4 * s[lo + 1]
        ELSE (4 - r) * s[lo + 1] + r * s[lo + 2]

(* order of the texts of the object columns, as Python sorts them *)
TextOrder == <<" california ", "California", "EPMR", "NUS", "Regular", "XX", "ZZ">>

TextRank(t) == CHOOSE i \in 1..Len(TextOrder) : TextOrder[i] = t

less(a, b, dt) ==
    IF dt = "object" THEN TextRank(a) < TextRank(b) ELSE a < b

(* Series.mode(): the most frequent non-missing payloads, sorted; the      *)
(* result is empty when the column has no non-missing entry.               *)
mode(frame, c) ==
    LET p      == present(frame, c)
        vals   == SeqToSet(p)
        cnt(v) == Cardinality({i \in 1..Len(p) : p[i] = v})
        best   == {v \in vals : \A w \in vals : cnt(w) <= cnt(v)}
        RECURSIVE sorted(_)
        sorted(S) ==
            IF S = {} THEN <<>>
            ELSE LET m == CHOOSE v \in S :
                              \A w \in S \ {v} : less(v, w, frame.dtype[c])
                 IN  <<m>> \o sorted(S \ {m})
    IN  sorted(best)

(* Series.fillna(v) *)
fillna(frame, c, v) ==
    LET series == column(frame, c)
    IN  assign_column(frame, c,
            [i \in 1..Len(series) |-> IF isna(series[i]) THEN v ELSE series[i]],
            frame.dtype[c])

(***************************************************************************)
(* Steps of clean_petroleum_data.                                          *)
(***************************************************************************)
(* the lower bound of the range forgotten *)
year_between_mut(row) ==
    /\ ~isna(row.cells["period"])
    /\ row.cells["period"][1] <= 2025

year_between(row) ==
    /\ ~isna(row.cells["period"])
    /\ row.cells["period"][1] >= 1990
    /\ row.cells["period"][1] <= 2025

(* no row dropped *)
drop_duplicates_mut(frame) == frame

(* DataFrame.drop_duplicates(): the first of each group of rows that are   *)
(* equal in every column is kept; missing entries compare equal.           *)
drop_duplicates(frame) ==
    LET r == frame.rows
        first(i) == \A j \in 1..(i - 1) : r[j].cells # r[i].cells
        RECURSIVE keep(_)
        keep(i) == IF i > Len(r) THEN <<>>
                   ELSE (IF first(i) THEN <<r[i]>> ELSE <<>>) \o keep(i + 1)
    IN  [frame EXCEPT !.rows = keep(1)]

numeric_cols(frame) ==
    SelectSeq(frame.columns, LAMBDA c : is_number(frame.dtype[c]))

non_numeric_cols(frame) ==
    SelectSeq(frame.columns, LAMBDA c : ~is_number(frame.dtype[c]))

RECURSIVE fill_median(_, _)
fill_median(frame, cols) ==
    IF cols = <<>> THEN frame
    ELSE fill_median(fillna(frame, Head(cols), median(frame, Head(cols))), Tail(cols))

(* a column whose mode() is empty makes mode()[0] raise *)
mode_undefined(frame) ==
    \E c \in SeqToSet(non_numeric_cols(frame)) : mode(frame, c) = <<>>

(* the non-numeric columns left as they are *)
fill_mode_mut(frame, cols) == frame

RECURSIVE fill_mode(_, _)
fill_mode(frame, cols) ==
    IF cols = <<>> THEN frame
    ELSE fill_mode(fillna(frame, Head(cols), Cell(mode(frame, Head(cols))[1])),
                   Tail(cols))

str_strip(t) == IF t = " california " THEN "california" ELSE t

str_title(t) == IF t = "california" THEN "California" ELSE t

TextCols == <<"area-name", "product-name", "process-name">>

RECURSIVE format_text(_, _)
format_text(frame, cols) ==
    IF cols = <<>> THEN frame
    ELSE IF has_column(frame, Head(cols))
         THEN LET series == column(frame, Head(cols))
              IN  format_text(
                    assign_column(frame, Head(cols),
                        [i \in 1..Len(series) |->
                            IF isna(series[i]) THEN NA
                            ELSE Cell(str_title(str_strip(series[i][1])))],
                        "object"),
                    Tail(cols))
         ELSE format_text(frame, Tail(cols))

(* the rows whose value lies in [Q1 - 1.5*IQR, Q3 + 1.5*IQR]; every        *)
(* comparison with a NaN bound or a NaN value is false.  All quantities    *)
(* are scaled by eight.                                                    *)
within_fences(v, s) ==
    LET Q1  == quantile(s, 1)
        Q3  == quantile(s, 3)
        IQR == Q3 - Q1
    IN  /\ 8 * v >= 2 * Q1 - 3 * IQR
        /\ 8 * v <= 2 * Q3 + 3 * IQR

(* only the upper fence applied *)
remove_outliers_mut(frame) ==
    LET s == SortSeq(present(frame, "value"), LAMBDA a, b : a < b)
        series == column(frame, "value")
    IN  select(frame, [i \in 1..Len(series) |->
            /\ Len(s) > 0
            /\ ~isna(series[i])
            /\ 8 * series[i][1]
                  >= 2 * quantile(s, 1) - 3 * (quantile(s, 3) - quantile(s, 1))])

remove_outliers(frame) ==
    LET s == SortSeq(present(frame, "value"), LAMBDA a, b : a < b)
        series == column(frame, "value")
    IN  select(frame, [i \in 1..Len(series) |->
            /\ Len(s) > 0
            /\ ~isna(series[i])
            /\ within_fences(series[i][1], s)])

area_map ==
    ("NUS" :> "United States") @@ ("R10" :> "PADD 1 (East Coast)")
    @@ ("R1X" :> "PADD 1A (New England)") @@ ("R1Y" :> "PADD 1B (Central Atlantic)")
    @@ ("R20" :> "PADD 2 (Midwest)") @@ ("R30" :> "PADD 3 (Gulf Coast)")
    @@ ("R40" :> "PADD 4 (Rocky Mountain)") @@ ("R50" :> "PADD 5 (West Coast)")
    @@ ("R5XCA" :> "PADD 5 (Except California)") @@ ("SCA" :> "California")

(* the label of EPD2DXL0 has an en dash (U+2013) between 0 and 15 *)
product_map ==
    ("EPD2D" :> "No 2 Diesel")
    @@ ("EPD2DXL0" :> "Ultra-Low Sulfur Diesel (0\\u201315 ppm)")
    @@ ("EPM0" :> "Total Gasoline") @@ ("EPMR" :> "Regular Gasoline")
    @@ ("EPMP" :> "Premium Gasoline") @@ ("EPM0R" :> "Reformulated Motor Gasoline")

(* df['product'].map(product_map).fillna(df['product']) *)
map_product(x) ==
    IF isna(x) THEN x
    ELSE IF x[1] \in DOMAIN product_map THEN Cell(product_map[x[1]]) ELSE x

(* codes outside the table passed through, as for products *)
map_area_mut(x) ==
    IF ~isna(x) /\ x[1] \in DOMAIN area_map THEN Cell(area_map[x[1]])
    ELSE x

(* df['duoarea'].map(area_map).fillna("Unknown") *)
map_area(x) ==
    IF ~isna(x) /\ x[1] \in DOMAIN area_map THEN Cell(area_map[x[1]])
    ELSE Cell("Unknown")

mapping(frame) ==
    LET f1 == IF has_column(frame, "product")
              THEN LET series == column(frame, "product")
                   IN  assign_column(frame, "product",
                           [i \in 1..Len(series) |-> map_product(series[i])], "object")
              ELSE frame
    IN  IF has_column(f1, "duoarea")
        THEN LET series == column(f1, "duoarea")
             IN  assign_column(f1, "duoarea",
                     [i \in 1..Len(series) |-> map_area(series[i])], "object")
        ELSE f1

(***************************************************************************)
(* Files.                                                                  *)
(***************************************************************************)
Absent == [exists |-> FALSE, lines |-> <<>>]

File(lines) == [exists |-> TRUE, lines |-> lines]

zero_byte(file) == file.exists /\ Len(file.lines) = 0

header_only(file) ==
    file.exists /\ Len(file.lines) = 1 /\ Len(file.lines[1]) > 0

(* the text to_csv writes for a cell *)
cell_text(x, dt) ==
    IF isna(x) THEN ""
    ELSE IF dt = "datetime64" THEN ToString(x[1]) \o "-01-01"
    ELSE IF dt = "float64"
         THEN ToString(x[1] \div 2) \o (IF x[1] % 2 = 0 THEN ".0" ELSE ".5")
    ELSE IF dt = "int64" THEN ToString(x[1] \div 2)
    ELSE x[1]

(* DataFrame.to_csv(path, index=False): the header line, then one line per *)
(* row; a frame without columns still gets its (empty) header line.        *)
to_csv(frame) ==
    File(<<frame.columns>> \o
         [i \in 1..Len(frame.rows) |->
            [k \in 1..Len(frame.columns) |->
                cell_text(frame.rows[i].cells[frame.columns[k]],
                          frame.dtype[frame.columns[k]])]])

(* Path.touch(): creates a zero-byte file, leaves an existing one as it is *)
touch(file) == IF file.exists THEN file ELSE File(<<>>)

(* to_csv; then to_csv again if the frame is not empty, touch otherwise *)
export_csv(frame) ==
    IF ~empty(frame) THEN to_csv(frame) ELSE touch(to_csv(frame))

(***************************************************************************)
(* clean_petroleum_data, stage by stage.  Each stage is a function of the  *)
(* frame the caller passes.                                                *)
(***************************************************************************)
NoError == [type |-> "none", arg |-> ""]

Raise(t, a) == [type |-> t, arg |-> a]

(* line 79: the caller's frame gets its period column re-typed *)
parsed_period(frame) ==
    LET series == column(frame, "period")
    IN  assign_column(frame, "period",
            [i \in 1..Len(series) |-> to_datetime(series[i])], "datetime64")

(* line 80: a new frame *)
year_filtered(frame) ==
    LET parsed == parsed_period(frame)
    IN  select(parsed, [i \in 1..Len(parsed.rows) |-> year_between(parsed.rows[i])])

(* line 81 *)
parsed_value(frame) ==
    LET filtered == year_filtered(frame)
        series   == column(filtered, "value")
    IN  assign_column(filtered, "value",
            [i \in 1..Len(series) |-> to_numeric(series[i])],
            to_numeric_dtype(series))

(* line 84 *)
working_set(frame) == drop_duplicates(parsed_value(frame))

(* the median taken before the duplicates are dropped *)
median_filled_mut(frame) ==
    fillna(working_set(frame), "value", median(parsed_value(frame), "value"))

(* lines 87-88 *)
median_filled(frame) ==
    LET ws == working_set(frame)
    IN  fill_median(ws, numeric_cols(ws))

(* lines 90-96 *)
imputed(frame) ==
    LET filled == median_filled(frame)
    IN  format_text(fill_mode(filled, non_numeric_cols(filled)), TextCols)

(* lines 99-127 *)
cleaned(frame) == mapping(remove_outliers(imputed(frame)))

(* the outcome of a call: the exception raised (if any), the caller's      *)
(* frame as the call leaves it, the frame returned and the artifact.       *)
clean_petroleum_data(frame, file) ==
    IF ~has_column(frame, "period")
    THEN [error |-> Raise("KeyError", "period"), caller |-> frame,
          result |-> EmptyFrame, file |-> file]
    ELSE IF ~has_column(frame, "value")
    THEN [error |-> Raise("KeyError", "value"), caller |-> parsed_period(frame),
          result |-> EmptyFrame, file |-> file]
    ELSE IF mode_undefined(median_filled(frame))
    THEN [error |-> Raise("KeyError", "0"), caller |-> parsed_period(frame),
          result |-> EmptyFrame, file |-> file]
    ELSE LET result == cleaned(frame)
         IN  [error |-> NoError, caller |-> parsed_period(frame),
              result |-> result, file |-> export_csv(result)]

(***************************************************************************)
(* The answers of the remote source explored.  A data row has the keys of  *)
(* Schema; three families of rows vary the period, the value and the       *)
(* code/label columns around the row                                       *)
(*   {period: "2025", value: "1", product: "EPMR", duoarea: "NUS"}.        *)
(* Rows are listed in one fixed order: no step of the pipeline depends on  *)
(* the position of a row, except that drop_duplicates keeps the first of   *)
(* several equal rows.                                                     *)
(***************************************************************************)
Schema == <<"period", "duoarea", "area-name", "product", "product-name", "value">>

JsonRow(period, duoarea, area_name, product, value) ==
    ("period" :> period) @@ ("duoarea" :> duoarea) @@ ("area-name" :> area_name)
    @@ ("product" :> product) @@ ("product-name" :> Cell("Regular"))
    @@ ("value" :> value)

TimeRows ==
    LET periods == <<"1850", "1990", "2025", "2026", "abc">>
        values  == <<"1", "abc">>
    IN  [k \in 1..(Len(periods) * Len(values)) |->
            JsonRow(Cell(periods[((k - 1) \div Len(values)) + 1]), Cell("NUS"),
                    Cell("California"), Cell("EPMR"),
                    Cell(values[((k - 1) % Len(values)) + 1]))]

ValueRows ==
    LET periods == <<"1990", "2000", "2025">>
        values  == <<"0", "1", "3", "abc">>
    IN  [k \in 1..(Len(periods) * Len(values)) |->
            JsonRow(Cell(periods[((k - 1) \div Len(values)) + 1]), Cell("NUS"),
                    Cell("California"), Cell("EPMR"),
                    Cell(values[((k - 1) % Len(values)) + 1]))]

CodeRows ==
    LET products == <<Cell("EPMR"), Cell("XX"), NA>>
        areas    == <<Cell("NUS"), Cell("ZZ"), NA>>
        names    == <<"California", " california ">>
    IN  [k \in 1..(Len(products) * Len(areas) * Len(names)) |->
            JsonRow(Cell("2025"),
                    areas[(((k - 1) \div Len(names)) % Len(areas)) + 1],
                    Cell(names[((k - 1) % Len(names)) + 1]),
                    products[((k - 1) \div (Len(names) * Len(areas))) + 1],
                    Cell("1"))]

MalformedRows ==
    <<JsonRow(Cell("2025"), Cell("NUS"), Cell("California"), Cell("EPMR"), Cell("1")),
      JsonRow(Cell("abc"), Cell("ZZ"), Cell(" california "), NA, Cell("abc"))>>

RECURSIVE NonDecreasing(_, _, _)
NonDecreasing(n, lo, hi) ==
    IF n = 0 THEN {<<>>}
    ELSE UNION {{<<i>> \o t : t \in NonDecreasing(n - 1, i, hi)} : i \in lo..hi}

(* the data arrays of at most max rows drawn from rows *)
DataArrays(rows, max) ==
    {[columns |-> Schema, rows |-> [i \in 1..Len(t) |-> rows[t[i]]]] :
        t \in UNION {NonDecreasing(n, 1, Len(rows)) : n \in 0..max}}

(* the same data with the key c absent from every row *)
without(data, c) ==
    [columns |-> SelectSeq(data.columns, LAMBDA k : k # c),
     rows    |-> [i \in 1..Len(data.rows) |->
                    [k \in DOMAIN data.rows[i] \ {c} |-> data.rows[i][k]]]]

Bodies ==
    LET wellformed == DataArrays(TimeRows, MaxTimeRows)
                      \cup DataArrays(ValueRows, MaxValueRows)
                      \cup DataArrays(CodeRows, MaxCodeRows)
        malformed  == {d \in DataArrays(MalformedRows, MaxMalformedRows) :
                          Len(d.rows) > 0}
    IN  {[has_data |-> TRUE, data |-> d] : d \in wellformed}
        \cup {[has_data |-> TRUE, data |-> without(d, "period")] : d \in malformed}
        \cup {[has_data |-> TRUE, data |-> without(d, "value")] : d \in malformed}
        \cup {[has_data |-> FALSE, data |-> [columns |-> <<>>, rows |-> <<>>]]}

Responses ==
    {[status_code |-> 200, body |-> b] : b \in Bodies}
    \cup {[status_code |-> c,
           body |-> [has_data |-> FALSE, data |-> [columns |-> <<>>, rows |-> <<>>]]] :
              c \in {404, 500}}

(* response.json().get("response", {}).get("data", []) *)
get_data(body) ==
    IF body.has_data THEN body.data ELSE [columns |-> <<>>, rows |-> <<>>]

(***************************************************************************)
(* The run of main.py.                                                     *)
(***************************************************************************)
Init ==
    /\ pc = "fetch"
    /\ response \in Responses
    /\ df = EmptyFrame
    /\ error = NoError
    /\ raw_csv = Absent
    /\ clean_csv = Absent
    /\ charts = {}
    /\ requests = 0
    /\ called = {}
    /\ warnings = {}

(* the status of the answer never looked at *)
Fetch_mut ==
    /\ pc = "fetch"
    /\ requests' = requests + 1
    /\ called' = called \cup {"fetch_petroleum_data"}
    /\ df' = DataFrame(get_data(response.body))
    /\ raw_csv' = export_csv(DataFrame(get_data(response.body)))
    /\ pc' = "save_raw"
    /\ UNCHANGED <<response, error, clean_csv, charts, warnings>>

(* fetch_petroleum_data: one GET; a RuntimeError on a status other than    *)
(* 200, else the frame of the data array, exported before it is returned.  *)
Fetch ==
    /\ pc = "fetch"
    /\ requests' = requests + 1
    /\ called' = called \cup {"fetch_petroleum_data"}
    /\ IF response.status_code # 200
       THEN /\ error' = Raise("RuntimeError", ToString(response.status_code))
            /\ pc' = "aborted"
            /\ UNCHANGED <<df, raw_csv>>
       ELSE /\ df' = DataFrame(get_data(response.body))
            /\ raw_csv' = export_csv(df')
            /\ pc' = "save_raw"
            /\ UNCHANGED error
    /\ UNCHANGED <<response, clean_csv, charts, warnings>>

(* main.py lines 52-53 *)
SaveRaw ==
    /\ pc = "save_raw"
    /\ raw_csv' = to_csv(df)
    /\ pc' = "clean"
    /\ UNCHANGED <<response, df, error, clean_csv, charts, requests, called, warnings>>

(* main.py line 56 *)
Clean ==
    /\ pc = "clean"
    /\ called' = called \cup {"clean_petroleum_data"}
    /\ LET out == clean_petroleum_data(df, clean_csv)
       IN  IF out.error # NoError
           THEN /\ error' = out.error
                /\ df' = out.caller
                /\ pc' = "aborted"
                /\ UNCHANGED clean_csv
           ELSE /\ df' = out.result
                /\ clean_csv' = out.file
                /\ pc' = "save_processed"
                /\ UNCHANGED error
    /\ UNCHANGED <<response, raw_csv, charts, requests, warnings>>

(* main.py lines 59-60 *)
SaveProcessed ==
    /\ pc = "save_processed"
    /\ clean_csv' = to_csv(df)
    /\ pc' = "plot_scatter"
    /\ UNCHANGED <<response, df, error, raw_csv, charts, requests, called, warnings>>

(* the rows of 2024 and 2025 *)
data_2024_25(frame) ==
    LET series == column(frame, "period")
    IN  select(frame, [i \in 1..Len(series) |->
            ~isna(series[i]) /\ series[i][1] \in {2024, 2025}])

(* A static renderer: the figure is drawn from data by the plotting        *)
(* library and saved, whatever data holds; no renderer looks at whether    *)
(* data is empty or prints anything about it.  What the plotting library   *)
(* does with a frame without rows is not decided by this code: it draws    *)
(* an empty figure, which is then saved, or it raises, which ends the run. *)
Plot(name, artifact, next, data) ==
    /\ pc = name
    /\ called' = called \cup {name}
    /\ \/ /\ charts' = charts \cup {artifact}
          /\ pc' = next
          /\ UNCHANGED error
       \/ /\ empty(data)
          /\ error' = Raise("Exception", name)
          /\ pc' = "aborted"
          /\ UNCHANGED charts
    /\ UNCHANGED <<response, df, raw_csv, clean_csv, requests, warnings>>

PlotScatter ==
    Plot("plot_scatter", "Fuel_Product_Prices.png", "plot_price_trend", df)

PlotPriceTrend ==
    Plot("plot_price_trend", "Prices_Prices_Trend_Over_the_Years.png",
         "plot_regional_cost", df)

PlotRegionalCost ==
    Plot("plot_regional_cost", "Regional_Cost_by_Area_and_Product.png",
         "plot_fuel_type_comparison", data_2024_25(df))

PlotFuelTypeComparison ==
    Plot("plot_fuel_type_comparison", "Fuel_Type_Cost_Comparison.png",
         "plot_us_trend_vs_states", data_2024_25(df))

PlotUsTrendVsStates ==
    Plot("plot_us_trend_vs_states", "U_S__National_Trend_vs_States.png",
         "create_all_charts", df)

(* the rows of 2021, 2024 and 2025 *)
regional_data(frame) ==
    LET series == column(frame, "period")
    IN  select(frame, [i \in 1..Len(series) |->
            ~isna(series[i]) /\ series[i][1] \in {2021, 2024, 2025}])

(* df['year'] = pd.to_datetime(df['period']).dt.year.astype(str), set on   *)
(* the caller's frame                                                      *)
with_year(frame) ==
    [columns |-> IF has_column(frame, "year") THEN frame.columns
                 ELSE Append(frame.columns, "year"),
     dtype   |-> ("year" :> "object") @@ frame.dtype,
     rows    |-> [i \in 1..Len(frame.rows) |->
                    [idx   |-> frame.rows[i].idx,
                     cells |-> ("year" :> Cell(ToString(frame.rows[i].cells["period"][1])))
                               @@ frame.rows[i].cells]]]

(* the documents written from the whole frame, in the order of the code *)
WholeFrameCharts == <<"scatter_prices.html", "price_trend.html", "national_vs_states.html">>

(* create_all_charts: the scatter and trend documents, then the year       *)
(* column, then the two regional documents, or a printed warning when      *)
(* there is no regional data, then the national document.  Only the        *)
(* regional pair is guarded; n is the number of whole-frame documents      *)
(* written, less than three when the plotting library raised on a frame    *)
(* without rows.                                                           *)
CreateAllCharts ==
    /\ pc = "create_all_charts"
    /\ called' = called \cup {"create_all_charts"}
    /\ \E n \in (IF empty(df) THEN 0..3 ELSE {3}) :
          LET regional == regional_data(df)
          IN  /\ charts' = charts
                    \cup {WholeFrameCharts[k] : k \in 1..n}
                    \cup (IF n >= 2 /\ ~empty(regional)
                          THEN {"regional_cost.html", "fuel_type_comparison.html"}
                          ELSE {})
              /\ df' = IF n >= 2 THEN with_year(df) ELSE df
              /\ warnings' = IF n >= 2 /\ empty(regional)
                             THEN warnings \cup {"create_all_charts"}
                             ELSE warnings
              /\ IF n = 3
                 THEN pc' = "done" /\ UNCHANGED error
                 ELSE pc' = "aborted" /\ error' = Raise("Exception", "create_all_charts")
    /\ UNCHANGED <<response, raw_csv, clean_csv, requests>>

Next ==
    \/ Fetch
    \/ SaveRaw
    \/ Clean
    \/ SaveProcessed
    \/ PlotScatter
    \/ PlotPriceTrend
    \/ PlotRegionalCost
    \/ PlotFuelTypeComparison
    \/ PlotUsTrendVsStates
    \/ CreateAllCharts

Spec == Init /\ [][Next]_vars

TypeOK ==
    /\ pc \in {"fetch", "save_raw", "clean", "save_processed", "plot_scatter",
               "plot_price_trend", "plot_regional_cost", "plot_fuel_type_comparison",
               "plot_us_trend_vs_states", "create_all_charts", "done", "aborted"}
    /\ requests \in 0..1
    /\ error.type \in {"none", "RuntimeError", "KeyError", "Exception"}
    /\ warnings \subseteq {"create_all_charts"}

(***************************************************************************)
(* Vocabulary of the properties.                                           *)
(***************************************************************************)
(* the frame main.py passes to clean_petroleum_data *)
Input == DataFrame(get_data(response.body))

InputRow(i) == CHOOSE r \in SeqToSet(Input.rows) : r.idx = i

(* clean_petroleum_data has returned: df is the cleaned set *)
Returned == "clean_petroleum_data" \in called /\ error = NoError

(* clean_petroleum_data has just returned *)
AtReturn == pc = "save_processed"

WellFormed == has_column(Input, "period") /\ has_column(Input, "value")

Rows(frame) == SeqToSet(frame.rows)

(* the period text names no year of [1990, 2025] *)
BadPeriod(c) ==
    \/ isna(c)
    \/ c[1] \notin DOMAIN YearTexts
    \/ YearTexts[c[1]] < 1990
    \/ YearTexts[c[1]] > 2025

(* C1: every row of the cleaned set has a period whose year is in          *)
(* [1990, 2025], and no input row whose period is unparseable or out of    *)
(* that range is in the cleaned set.                                       *)
C1_YearRange ==
    (AtReturn /\ WellFormed) =>
        /\ \A r \in Rows(df) :
              /\ ~isna(r.cells["period"])
              /\ r.cells["period"][1] \in 1990..2025
        /\ \A i \in Rows(Input) :
              BadPeriod(i.cells["period"]) => \A r \in Rows(df) : r.idx # i.idx

C1_Witness ==
    /\ AtReturn
    /\ Len(df.rows) > 0
    /\ \E i \in Rows(Input) : i.cells["period"] = Cell("1850")
    /\ \E i \in Rows(Input) : i.cells["period"] = Cell("abc")

(* the sorted values of a frame's value column *)
SortedValues(frame) == SortSeq(present(frame, "value"), LAMBDA a, b : a < b)

(* C2 as stated: every value of the cleaned set lies within the fences     *)
(* computed from the cleaned set's own values, i.e. filtering the cleaned  *)
(* set again removes nothing.                                              *)
C2_OwnFences ==
    AtReturn =>
        LET s == SortedValues(df)
        IN  \A r \in Rows(df) : within_fences(r.cells["value"][1], s)

(* C2, amended: every value of the cleaned set lies within the fences      *)
(* [Q1 - 1.5*IQR, Q3 + 1.5*IQR] of the working set as it is just before    *)
(* the outlier filter (year-filtered, de-duplicated, imputed), and every   *)
(* row of that working set whose value lies within them is kept.           *)
C2_WorkingSetFences ==
    AtReturn =>
        LET before == imputed(Input)
            s      == SortedValues(before)
        IN  /\ \A r \in Rows(df) : within_fences(r.cells["value"][1], s)
            /\ \A w \in Rows(before) :
                  (~isna(w.cells["value"]) /\ within_fences(w.cells["value"][1], s))
                  => \E r \in Rows(df) : r.idx = w.idx

(* the filter removed a row and a second pass would remove another *)
C2_Witness ==
    /\ AtReturn
    /\ Len(df.rows) > 0
    /\ Len(df.rows) < Len(imputed(Input).rows)
    /\ \E r \in Rows(df) : ~within_fences(r.cells["value"][1], SortedValues(df))

(* C3: no cell of the cleaned set is missing; a cell whose product or      *)
(* region code was missing in the input carries the label of the most      *)
(* frequent code of its column in the working set.                         *)
C3_NoMissing ==
    AtReturn =>
        LET ws == working_set(Input)
        IN  /\ \A r \in Rows(df) : \A c \in SeqToSet(df.columns) : ~isna(r.cells[c])
            /\ \A r \in Rows(df) :
                  /\ isna(InputRow(r.idx).cells["product"]) =>
                        r.cells["product"] = map_product(Cell(mode(ws, "product")[1]))
                  /\ isna(InputRow(r.idx).cells["duoarea"]) =>
                        r.cells["duoarea"] = map_area(Cell(mode(ws, "duoarea")[1]))

C3_Witness ==
    /\ AtReturn
    /\ \E r \in Rows(df) : isna(InputRow(r.idx).cells["product"])
    /\ \E r \in Rows(df) : isna(InputRow(r.idx).cells["duoarea"])

(* C4: in every row of the cleaned set, a region code of the lookup table  *)
(* is replaced by its mapped name and any other region code by "Unknown";  *)
(* a product code of the lookup table is replaced by its mapped name and   *)
(* any other product code is left as it was.                               *)
C4_Mapping ==
    AtReturn =>
        \A r \in Rows(df) :
            LET area    == InputRow(r.idx).cells["duoarea"]
                product == InputRow(r.idx).cells["product"]
            IN  /\ ~isna(area) =>
                      r.cells["duoarea"] =
                          IF area[1] \in DOMAIN area_map
                          THEN Cell(area_map[area[1]]) ELSE Cell("Unknown")
                /\ ~isna(product) =>
                      r.cells["product"] =
                          IF product[1] \in DOMAIN product_map
                          THEN Cell(product_map[product[1]]) ELSE product

C4_Witness ==
    /\ AtReturn
    /\ \E r \in Rows(df) :
          /\ InputRow(r.idx).cells["duoarea"] = Cell("ZZ")
          /\ InputRow(r.idx).cells["product"] = Cell("XX")
    /\ \E r \in Rows(df) :
          /\ InputRow(r.idx).cells["duoarea"] = Cell("NUS")
          /\ InputRow(r.idx).cells["product"] = Cell("EPMR")

(* C5 as stated: no two rows of the cleaned set are equal in all fields.   *)
C5_NoEqualRows ==
    AtReturn =>
        \A i, j \in 1..Len(df.rows) : i # j => df.rows[i].cells # df.rows[j].cells

(* C5, amended: rows that are duplicates of one another in the input       *)
(* appear at most once in the cleaned set (rows that differ in the input   *)
(* may still end up equal in all fields).                                  *)
C5_InputDuplicatesOnce ==
    AtReturn =>
        \A i, j \in 1..Len(df.rows) :
            i # j => InputRow(df.rows[i].idx).cells # InputRow(df.rows[j].idx).cells

(* an input with two equal rows, one of which survives *)
C5_Witness ==
    /\ AtReturn
    /\ \E r \in Rows(df) : \E i \in Rows(Input) :
          i.idx # r.idx /\ i.cells = InputRow(r.idx).cells

(* the remote source answered with success and no data row *)
ZeroRows ==
    response.status_code = 200 /\ Len(get_data(response.body).rows) = 0

(* C6 as stated: with a successful answer of zero data rows the run raises *)
(* no error, the raw artifact holds no data row, the cleaner returns an    *)
(* empty set and the cleaned artifact holds no data row.                   *)
C6_EmptyRunCompletes ==
    ZeroRows =>
        /\ error = NoError
        /\ pc # "fetch" => (empty(df) /\ raw_csv.exists /\ Len(raw_csv.lines) <= 1)
        /\ "clean_petroleum_data" \in called =>
              (empty(df) /\ clean_csv.exists /\ Len(clean_csv.lines) <= 1)

(* every non-numeric column of the frame has a non-missing entry *)
ModesDefined(frame) ==
    \A c \in SeqToSet(frame.columns) :
        ~is_number(frame.dtype[c]) => \E r \in Rows(frame) : ~isna(r.cells[c])

(* C7: when the working set (year-filtered, de-duplicated) has a parseable *)
(* value, a row of it whose value is unparseable does not make the cleaner *)
(* fail and is in the cleaned set with the median of the working set's     *)
(* parseable values as its value.                                          *)
C7_ImputedMedian ==
    (pc \in {"save_processed", "aborted"} /\ "clean_petroleum_data" \in called
        /\ WellFormed) =>
        LET ws == working_set(Input)
        IN  \A w \in Rows(ws) :
                (/\ isna(w.cells["value"])
                 /\ \E v \in Rows(ws) : ~isna(v.cells["value"]))
                =>
                /\ ModesDefined(ws) => error.type # "KeyError"
                /\ AtReturn =>
                      \E r \in Rows(df) :
                          /\ r.idx = w.idx
                          /\ r.cells["value"] = median(ws, "value")

(* a surviving row with an unparseable value, in an input whose duplicate  *)
(* rows change the median                                                  *)
C7_Witness ==
    /\ AtReturn
    /\ \E r \in Rows(df) : InputRow(r.idx).cells["value"] = Cell("abc")
    /\ Len(working_set(Input).rows) < Len(parsed_value(Input).rows)
    /\ median(parsed_value(Input), "value") # median(working_set(Input), "value")

(* C8 as stated: an input without the period or the value column makes the *)
(* cleaner fail with the caller's frame untouched and no cleaned artifact  *)
(* written.                                                                *)
C8_FailsBeforeProcessing ==
    ("clean_petroleum_data" \in called /\ ~WellFormed) =>
        /\ error.type = "KeyError"
        /\ df = Input
        /\ clean_csv = Absent

(* C9: after a non-success status the fetcher has failed with an error     *)
(* carrying the status code after one request, the run has stopped,        *)
(* nothing has been written and nothing else has been invoked.             *)
C9_RequestErrorAborts ==
    (response.status_code # 200 /\ pc # "fetch") =>
        /\ error = Raise("RuntimeError", ToString(response.status_code))
        /\ requests = 1
        /\ pc = "aborted"
        /\ raw_csv = Absent
        /\ clean_csv = Absent
        /\ charts = {}
        /\ called = {"fetch_petroleum_data"}

C9_Witness ==
    /\ response.status_code = 404
    /\ pc = "aborted"
    /\ error.type = "RuntimeError"

(* C10 as stated: whenever the cleaned set is empty the cleaned artifact   *)
(* is a zero-byte file, when the cleaner returns and after main.py's own   *)
(* export.                                                                 *)
C10_EmptyMarker ==
    (Returned /\ empty(df)) => (zero_byte(clean_csv) /\ ~header_only(clean_csv))

(* the input has both required columns and every row of it is excluded by  *)
(* the year filter                                                         *)
AllExcluded ==
    /\ WellFormed
    /\ Len(Input.rows) > 0
    /\ \A i \in Rows(Input) : BadPeriod(i.cells["period"])

(* C12 as stated: when every row is excluded by the year filter the        *)
(* cleaner does not fail; it returns an empty cleaned set and persists the *)
(* cleaned artifact without a data row.                                    *)
C12_AllExcludedReturnsEmpty ==
    (AllExcluded /\ "clean_petroleum_data" \in called) =>
        /\ error = NoError
        /\ empty(df)
        /\ clean_csv.exists
        /\ Len(clean_csv.lines) <= 1

Renderers ==
    {"plot_scatter", "plot_price_trend", "plot_regional_cost",
     "plot_fuel_type_comparison", "plot_us_trend_vs_states", "create_all_charts"}

(* clean_petroleum_data has returned an empty cleaned set *)
CleanedEmpty ==
    /\ "clean_petroleum_data" \in called
    /\ error.type # "KeyError"
    /\ empty(df)

(* C11 as stated: with an empty cleaned set no renderer writes a chart     *)
(* artifact or fails, and every renderer invoked has emitted a warning.    *)
C11_EmptySetSkipped ==
    CleanedEmpty =>
        /\ charts = {}
        /\ error = NoError
        /\ (called \cap Renderers) \subseteq warnings

====
